---- MODULE Spec2Model ----
(***************************************************************************)
(* Persistence core of nf-gui.py: the allow-list file (IP_FILE), the       *)
(* directory of timestamped backups (VERSIONS_DIR), and the handlers that  *)
(* read and write them: load_ips, save_ips, versions (list / rollback),    *)
(* and add_ip and delete_ip, which call load_ips and then save_ips.        *)
(*                                                                         *)
(* A file is the sequence of its characters.  Each request is handled by   *)
(* one process; a process executes its handler one system call at a time.  *)
(* Python buffers the lines written by save_ips and hands them to the      *)
(* operating system when the file is closed (lists stay far below the      *)
(* 8 KiB buffer), so the write is one step at the file offset of the       *)
(* writer, which is 0 after open(..., 'w').                                *)
(***************************************************************************)
EXTENDS Integers, Sequences, FiniteSets, TLC

\* ------------------------------------------------------------------ bounds
NProcs == 2         \* requests of a sequential run
NConc == 2          \* requests of a concurrent run
MaxLen == 2         \* addresses in a list passed to save_ips
ClockStart == 9     \* microsecond of the wall clock in the initial state
MaxTicks == 2       \* microseconds the wall clock may advance
SeqFaults == 1      \* failed steps of save_ips in a sequential run

\* ------------------------------------------------------- program constants
max_retries == 5
UsecWidth == 6      \* strftime('%f'): microseconds, zero-padded to 6 digits

Max(a, b) == IF a >= b THEN a ELSE b
Procs == 1..Max(NProcs, NConc)
MaxClock == ClockStart + MaxTicks

NL == "\n"
Whitespace == {NL, " ", "\t", "\r"}

\* Addresses, as the strings add_ip passes on: no whitespace, never empty.
Addr == {<<"1">>, <<"2", "2">>}

RECURSIVE SeqsUpTo(_, _)
SeqsUpTo(S, n) ==
    IF n = 0 THEN {<<>>}
    ELSE LET shorter == SeqsUpTo(S, n - 1)
         IN shorter \cup {Append(s, x) : s \in shorter, x \in S}

Distinct(s) == \A i, j \in 1..Len(s) : i # j => s[i] # s[j]

\* The lists the callers of save_ips build: distinct addresses, in any order.
Lists == {s \in SeqsUpTo(Addr, MaxLen) : Distinct(s)}

\* ------------------------------------------------------------ file format
\* save_ips, lines 58-59: every address followed by a newline.
SerializeNoNewline(ips) ==
    IF ips = <<>> THEN <<>>
    ELSE LET F[i \in 0..Len(ips)] == IF i = 0 THEN <<>> ELSE F[i - 1] \o ips[i]
         IN F[Len(ips)]

Serialize(ips) ==
    LET F[i \in 0..Len(ips)] ==
            IF i = 0 THEN <<>> ELSE F[i - 1] \o ips[i] \o <<NL>>
    IN F[Len(ips)]

\* Writing buf at offset 0 of a file that holds old (no truncation by write).
WriteAt0(old, buf) ==
    IF Len(buf) >= Len(old) THEN buf
    ELSE buf \o SubSeq(old, Len(buf) + 1, Len(old))

\* Iterating a text file: the lines, each up to and including its newline.
RECURSIVE SplitLines(_, _)
SplitLines(bytes, cur) ==
    IF bytes = <<>> THEN (IF cur = <<>> THEN <<>> ELSE <<cur>>)
    ELSE IF Head(bytes) = NL
         THEN <<Append(cur, NL)>> \o SplitLines(Tail(bytes), <<>>)
         ELSE SplitLines(Tail(bytes), Append(cur, Head(bytes)))

RECURSIVE LStrip(_)
LStrip(s) ==
    IF s # <<>> /\ Head(s) \in Whitespace THEN LStrip(Tail(s)) ELSE s

RECURSIVE RStrip(_)
RStrip(s) ==
    IF s # <<>> /\ s[Len(s)] \in Whitespace
    THEN RStrip(SubSeq(s, 1, Len(s) - 1)) ELSE s

Strip(s) == RStrip(LStrip(s))

\* load_ips, line 35: [line.strip() for line in f if line.strip()]
Parse(bytes) ==
    LET ls == SplitLines(bytes, <<>>)
    IN SelectSeq([i \in 1..Len(ls) |-> Strip(ls[i])], LAMBDA l : l # <<>>)

\* ---------------------------------------------------------- backup names
RECURSIVE Digits(_)
Digits(n) == IF n < 10 THEN <<n>> ELSE Append(Digits(n \div 10), n % 10)

RECURSIVE ZeroPad(_, _)
ZeroPad(d, w) == IF Len(d) >= w THEN d ELSE ZeroPad(<<0>> \o d, w)

FormatTsUnpadded(t) == Digits(t)

\* save_ips, lines 51-52: the name of the backup taken at microsecond t.  The
\* date, hour, minute and second fields are those of the second modelled, the
\* same for every name; the name is told apart by its '%f' field.
FormatTs(t) == ZeroPad(Digits(t), UsecWidth)

\* str comparison: by the first differing character, a prefix sorts first.
RECURSIVE LexLess(_, _)
LexLess(a, b) ==
    IF b = <<>> THEN FALSE
    ELSE IF a = <<>> THEN TRUE
    ELSE IF Head(a) = Head(b) THEN LexLess(Tail(a), Tail(b))
    ELSE Head(a) < Head(b)

\* versions, line 307: sorted(names, reverse=True)
RECURSIVE SortedDesc(_)
SortedDesc(S) ==
    IF S = {} THEN <<>>
    ELSE LET m == CHOOSE x \in S : \A y \in S \ {x} : LexLess(y, x)
         IN <<m>> \o SortedDesc(S \ {m})

\* A backup name that no backup has: a microsecond before the initial state.
OtherName == FormatTs(0)
NoArg == <<>>       \* request.form.get('version_file') of a form without it

VARIABLES
    exists,     \* os.path.exists(IP_FILE)
    file,       \* the content of IP_FILE
    versions,   \* VERSIONS_DIR: backup name -> content
    now,        \* the wall clock, in microseconds
    pc,         \* where each request is in its handler
    op,         \* the handler of each request
    ip,         \* request.form['ip'] of add_ip and delete_ip
    arg,        \* ips of save_ips, version_file of versions
    attempt,    \* the loop variable of the retry loops
    ts,         \* the backup name of the current attempt of save_ips
    bk,         \* whether the current attempt of save_ips took a backup
    res,        \* what load_ips returned / the backups list of versions
    out,        \* how the handler ended
    faults,     \* steps of save_ips the environment may still fail
    pre,        \* history: the store when the request started
    over,       \* history: the content that line 56 of the request truncated
    hb          \* history: <<a, b>>, backup a was complete when b was named

vars == <<exists, file, versions, now, pc, op, ip, arg, attempt, ts, bk, res,
          out, faults, pre, over, hb>>

EmptyDir == [n \in {} |-> <<>>]

\* shutil.copy2(src, dst): dst is created, or overwritten, with the bytes
PutFile(dir, name, bytes) ==
    [n \in DOMAIN dir \cup {name} |-> IF n = name THEN bytes ELSE dir[n]]

Store == [e |-> exists, f |-> file, v |-> versions]
NoStore == [e |-> FALSE, f |-> <<>>, v |-> EmptyDir]

\* flock: the locks held on IP_FILE, by the place of their holders.
HoldsEX(p) == pc[p] \in {"s_write", "h_ex"}
HoldsSH(p) == pc[p] \in {"l_read", "h_sh"}

InitProcs ==
    /\ pc = [p \in Procs |-> "idle"]
    /\ op = [p \in Procs |-> "none"]
    /\ ip = [p \in Procs |-> <<>>]
    /\ arg = [p \in Procs |-> <<>>]
    /\ attempt = [p \in Procs |-> 0]
    /\ ts = [p \in Procs |-> <<>>]
    /\ bk = [p \in Procs |-> FALSE]
    /\ res = [p \in Procs |-> <<>>]
    /\ out = [p \in Procs |-> "none"]
    /\ pre = [p \in Procs |-> NoStore]
    /\ over = [p \in Procs |-> <<>>]
    /\ hb = {}

\* The store at startup: no IP_FILE yet, or one written by an earlier run.
InitFile ==
    /\ exists \in BOOLEAN
    /\ file \in (IF exists THEN {Serialize(l) : l \in Lists} ELSE {<<>>})
    /\ now = ClockStart

Init == InitFile /\ versions = EmptyDir /\ InitProcs /\ faults = 0

\* The same, where an earlier run may have left a backup, and with an
\* environment in which steps of save_ips may fail.
InitSeq ==
    /\ InitFile
    /\ versions \in {EmptyDir} \cup
           (IF exists
            THEN {PutFile(EmptyDir, FormatTs(ClockStart - 1), Serialize(l)) :
                     l \in Lists}
            ELSE {})
    /\ InitProcs
    /\ faults = SeqFaults

\* The store at startup, with an environment that may fail every attempt of
\* a save_ips, and a clock with room for the copies and sleeps of 5 attempts.
InitRetry ==
    /\ exists \in BOOLEAN
    /\ file \in (IF exists THEN {Serialize(l) : l \in Lists} ELSE {<<>>})
    /\ now = MaxClock - 2 * max_retries
    /\ versions = EmptyDir
    /\ InitProcs
    /\ faults = max_retries

\* A request arrives; requests are numbered in the order of their arrival.
Begin(p, o, a, at) ==
    /\ pc[p] = "idle"
    /\ \A q \in 1..(p - 1) : pc[q] # "idle"
    /\ op' = [op EXCEPT ![p] = o]
    /\ arg' = [arg EXCEPT ![p] = a]
    /\ pc' = [pc EXCEPT ![p] = at]
    /\ pre' = [pre EXCEPT ![p] = Store]

\* The handler returns.
Finish(p, o) ==
    /\ pc' = [pc EXCEPT ![p] = "done"]
    /\ out' = [out EXCEPT ![p] = o]

\* load_ips returns: to index (line 261), which ends, or to add_ip (line 280)
\* or delete_ip (line 294), which go on.
LoadReturn(p, o) ==
    IF op[p] = "load"
    THEN Finish(p, o)
    ELSE /\ pc' = [pc EXCEPT ![p] = "e_check"]
         /\ UNCHANGED out

\* ---------------------------------------------------------------- load_ips
\* lines 27-28
StartLoad(p) ==
    /\ Begin(p, "load", <<>>, IF exists THEN "l_open" ELSE "done")
    /\ out' = [out EXCEPT ![p] = IF exists THEN "none" ELSE "ok"]
    /\ UNCHANGED <<ip, exists, file, versions, now, attempt, ts, bk, res,
                   faults, over, hb>>

\* line 33
LoadOpen(p) ==
    /\ pc[p] = "l_open"
    /\ pc' = [pc EXCEPT ![p] = "l_lock"]
    /\ UNCHANGED <<ip, exists, file, versions, now, op, arg, attempt, ts, bk,
                   res, out, faults, pre, over, hb>>

\* line 34: flock(LOCK_SH) waits while another descriptor holds LOCK_EX
LoadLock(p) ==
    /\ pc[p] = "l_lock"
    /\ \A q \in Procs \ {p} : ~HoldsEX(q)
    /\ pc' = [pc EXCEPT ![p] = "l_read"]
    /\ UNCHANGED <<ip, exists, file, versions, now, op, arg, attempt, ts, bk,
                   res, out, faults, pre, over, hb>>

\* line 35, and the close at the end of the with block
LoadRead(p) ==
    /\ pc[p] = "l_read"
    /\ res' = [res EXCEPT ![p] = Parse(file)]
    /\ LoadReturn(p, "ok")
    /\ UNCHANGED <<ip, exists, file, versions, now, op, arg, attempt, ts, bk,
                   faults, pre, over, hb>>

\* A retry loop that lets the last error out, as save_ips does at line 68.
LoadFailRaises(p) ==
    /\ pc[p] \in {"l_open", "l_lock", "l_read"}
    /\ IF attempt[p] < max_retries - 1
       THEN /\ attempt' = [attempt EXCEPT ![p] = attempt[p] + 1]
            /\ pc' = [pc EXCEPT ![p] = "l_open"]
            /\ UNCHANGED out
       ELSE /\ Finish(p, "raised")
            /\ UNCHANGED attempt
    /\ UNCHANGED <<ip, exists, file, versions, now, op, arg, ts, bk, res,
                   faults, pre, over, hb>>

\* lines 36-42: open, flock or the read raised IOError / OSError
LoadFail(p) ==
    /\ pc[p] \in {"l_open", "l_lock", "l_read"}
    /\ IF attempt[p] < max_retries - 1
       THEN /\ attempt' = [attempt EXCEPT ![p] = attempt[p] + 1]
            /\ pc' = [pc EXCEPT ![p] = "l_open"]
            /\ UNCHANGED <<res, out>>
       ELSE /\ res' = [res EXCEPT ![p] = <<>>]
            /\ LoadReturn(p, "gaveup")
            /\ UNCHANGED attempt
    /\ UNCHANGED <<ip, exists, file, versions, now, op, arg, ts, bk, faults,
                   pre, over, hb>>

\* ---------------------------------------------------------------- save_ips
\* add_ip line 287, delete_ip line 300: save_ips(ips)
StartSave(p) ==
    /\ \E ips \in Lists : Begin(p, "save", ips, "s_chk")
    /\ UNCHANGED <<ip, exists, file, versions, now, attempt, ts, bk, res, out,
                   faults, over, hb>>

\* lines 50-52: the backup is named after the clock, if there is a file.
\* The clock is read here and nowhere else: t is the time it shows, any
\* time from the last one observed on.
SaveCheck(p) ==
    /\ pc[p] = "s_chk"
    /\ IF exists
       THEN \E t \in now..MaxClock :
            /\ now' = t
            /\ ts' = [ts EXCEPT ![p] = FormatTs(t)]
            /\ bk' = [bk EXCEPT ![p] = TRUE]
            /\ hb' = hb \cup {<<n, FormatTs(t)>> : n \in DOMAIN versions}
            /\ pc' = [pc EXCEPT ![p] = "s_copy"]
       ELSE /\ bk' = [bk EXCEPT ![p] = FALSE]
            /\ pc' = [pc EXCEPT ![p] = "s_open"]
            /\ UNCHANGED <<now, ts, hb>>
    /\ UNCHANGED <<ip, exists, file, versions, op, arg, attempt, res, out,
                   faults, pre, over>>

\* line 53; the copy takes longer than the clock's resolution
SaveCopy(p) ==
    /\ pc[p] = "s_copy"
    /\ now < MaxClock
    /\ now' = now + 1
    /\ versions' = PutFile(versions, ts[p], file)
    /\ pc' = [pc EXCEPT ![p] = "s_open"]
    /\ UNCHANGED <<ip, exists, file, op, arg, attempt, ts, bk, res, out,
                   faults, pre, over, hb>>

\* line 56: open(IP_FILE, 'w') creates the file or truncates it to nothing
SaveOpen(p) ==
    /\ pc[p] = "s_open"
    /\ exists' = TRUE
    /\ file' = <<>>
    /\ over' = [over EXCEPT ![p] = file]
    /\ pc' = [pc EXCEPT ![p] = "s_lock"]
    /\ UNCHANGED <<ip, versions, now, op, arg, attempt, ts, bk, res, out,
                   faults, pre, hb>>

\* line 57: flock(LOCK_EX) waits while another descriptor holds a lock
SaveLock(p) ==
    /\ pc[p] = "s_lock"
    /\ \A q \in Procs \ {p} : ~HoldsEX(q) /\ ~HoldsSH(q)
    /\ pc' = [pc EXCEPT ![p] = "s_write"]
    /\ UNCHANGED <<ip, exists, file, versions, now, op, arg, attempt, ts, bk,
                   res, out, faults, pre, over, hb>>

\* lines 58-60: the lines are written when the with block closes the file,
\* which also drops the lock
SaveWrite(p) ==
    /\ pc[p] = "s_write"
    /\ file' = WriteAt0(file, Serialize(arg[p]))
    /\ Finish(p, "ok")
    /\ UNCHANGED <<ip, exists, versions, now, op, arg, attempt, ts, bk, res,
                   faults, pre, over, hb>>

\* What a failed step leaves behind: copy2 may have created the backup and
\* written part of it; a failed open leaves the file alone; a failed flock
\* comes after the truncation; a failed write may have written a part.
Prefixes(s) == {SubSeq(s, 1, k) : k \in 0..(Len(s) - 1)}

FailureEffect(p) ==
    CASE pc[p] = "s_copy" ->
            /\ \/ versions' = versions
               \/ \E part \in Prefixes(file) :
                      versions' = PutFile(versions, ts[p], part)
            /\ UNCHANGED file
      [] pc[p] = "s_write" ->
            /\ \/ file' = file
               \/ \E part \in Prefixes(Serialize(arg[p])) :
                      file' = WriteAt0(file, part)
            /\ UNCHANGED versions
      [] OTHER -> UNCHANGED <<file, versions>>

\* An attempt that puts up with a failed backup and goes on to line 56.
SaveFailSkipsArchive(p) ==
    /\ pc[p] \in {"s_copy", "s_open", "s_lock", "s_write"}
    /\ faults > 0
    /\ faults' = faults - 1
    /\ FailureEffect(p)
    /\ IF pc[p] = "s_copy"
       THEN /\ pc' = [pc EXCEPT ![p] = "s_open"]
            /\ UNCHANGED <<now, attempt, out>>
       ELSE IF attempt[p] < max_retries - 1
       THEN /\ now < MaxClock
            /\ now' = now + 1
            /\ attempt' = [attempt EXCEPT ![p] = attempt[p] + 1]
            /\ pc' = [pc EXCEPT ![p] = "s_chk"]
            /\ UNCHANGED out
       ELSE /\ Finish(p, "raised")
            /\ UNCHANGED <<now, attempt>>
    /\ UNCHANGED <<ip, exists, op, arg, ts, bk, res, pre, over, hb>>

\* lines 62-68: a step of the attempt raised IOError / OSError; the sleep
\* before the next attempt takes longer than the clock's resolution
SaveFail(p) ==
    /\ pc[p] \in {"s_copy", "s_open", "s_lock", "s_write"}
    /\ faults > 0
    /\ faults' = faults - 1
    /\ FailureEffect(p)
    /\ IF attempt[p] < max_retries - 1
       THEN /\ now < MaxClock
            /\ now' = now + 1
            /\ attempt' = [attempt EXCEPT ![p] = attempt[p] + 1]
            /\ pc' = [pc EXCEPT ![p] = "s_chk"]
            /\ UNCHANGED out
       ELSE /\ Finish(p, "raised")
            /\ UNCHANGED <<now, attempt>>
    /\ UNCHANGED <<ip, exists, op, arg, ts, bk, res, pre, over, hb>>

\* ------------------------------------------------------- add_ip, delete_ip
\* lines 266-280, 293-294: the address of the form, which passes the checks
\* of lines 267-278; then load_ips, which returns [] at once without IP_FILE
StartAdd(p) ==
    /\ \E a \in Addr :
           /\ Begin(p, "add", <<>>, IF exists THEN "l_open" ELSE "e_check")
           /\ ip' = [ip EXCEPT ![p] = a]
    /\ UNCHANGED <<exists, file, versions, now, attempt, ts, bk, res, out,
                   faults, over, hb>>

StartDelete(p) ==
    /\ \E a \in Addr :
           /\ Begin(p, "delete", <<>>, IF exists THEN "l_open" ELSE "e_check")
           /\ ip' = [ip EXCEPT ![p] = a]
    /\ UNCHANGED <<exists, file, versions, now, attempt, ts, bk, res, out,
                   faults, over, hb>>

InList(x, l) == \E i \in 1..Len(l) : l[i] = x

\* line 286: ips.append(ip)
AddFirst(ips, a) == <<a>> \o ips

AddIp(ips, a) == Append(ips, a)

\* line 299: ips.remove(ip_to_delete) removes the first occurrence
RemoveIp(ips, a) ==
    LET i == CHOOSE i \in 1..Len(ips) :
                 ips[i] = a /\ \A j \in 1..(i - 1) : ips[j] # a
    IN SubSeq(ips, 1, i - 1) \o SubSeq(ips, i + 1, Len(ips))

\* lines 282-288, 295-301: refuse and flash a message, or build the new list
\* and call save_ips with it
EditCheck(p) ==
    /\ pc[p] = "e_check"
    /\ IF (op[p] = "add") = InList(ip[p], res[p])
       THEN /\ Finish(p, "rejected")
            /\ UNCHANGED <<arg, attempt>>
       ELSE /\ arg' = [arg EXCEPT ![p] = IF op[p] = "add"
                                         THEN AddIp(res[p], ip[p])
                                         ELSE RemoveIp(res[p], ip[p])]
            /\ attempt' = [attempt EXCEPT ![p] = 0]
            /\ pc' = [pc EXCEPT ![p] = "s_chk"]
            /\ UNCHANGED out
    /\ UNCHANGED <<ip, exists, file, versions, now, op, ts, bk, res, faults,
                   pre, over, hb>>

\* ------------------------------------------------------------------- flock
\* lines 34, 57: the lock is advisory and taken per open file, so any other
\* process that opens IP_FILE may take it, and keeps it for as long as it
\* likes.
StartHold(p) ==
    /\ exists
    /\ \E m \in {"h_sh", "h_ex"} :
           /\ \A q \in Procs \ {p} :
                  ~HoldsEX(q) /\ (m = "h_ex" => ~HoldsSH(q))
           /\ Begin(p, "hold", <<>>, m)
    /\ UNCHANGED <<ip, exists, file, versions, now, attempt, ts, bk, res, out,
                   faults, over, hb>>

EndHold(p) ==
    /\ pc[p] \in {"h_sh", "h_ex"}
    /\ Finish(p, "ok")
    /\ UNCHANGED <<ip, exists, file, versions, now, op, arg, attempt, ts, bk,
                   res, faults, pre, over, hb>>

\* ---------------------------------------------------------------- versions
\* line 307
List == SortedDesc(DOMAIN versions)

\* GET /versions: lines 307, 397
StartList(p) ==
    /\ Begin(p, "list", <<>>, "done")
    /\ res' = [res EXCEPT ![p] = List]
    /\ out' = [out EXCEPT ![p] = "ok"]
    /\ UNCHANGED <<ip, exists, file, versions, now, attempt, ts, bk, faults,
                   over, hb>>

\* POST /versions: lines 307-309
StartRestore(p) ==
    /\ \E v \in DOMAIN versions \cup {NoArg, OtherName} :
           Begin(p, "restore", v, "r_check")
    /\ res' = [res EXCEPT ![p] = List]
    /\ UNCHANGED <<ip, exists, file, versions, now, attempt, ts, bk, out,
                   faults, over, hb>>

\* line 310
RestoreValidNoMembership(v, backups) == v # NoArg

RestoreValid(v, backups) == v # NoArg /\ InList(v, backups)

\* shutil.copy2 on an existing dst opens it 'wb': the old bytes are gone.
CopyNoTruncate(old, src) == WriteAt0(old, src)

CopyOver(old, src) == src

\* lines 311-313: what the rollback does to VERSIONS_DIR. It reads the
\* chosen backup and writes IP_FILE; the content it replaces is not archived.
RollbackArchives(dir, name, old) == PutFile(dir, name, old)

RollbackKeeps(dir, name, old) == dir

\* lines 310-318: copy the chosen backup over IP_FILE, or refuse
RestoreCopy(p) ==
    /\ pc[p] = "r_check"
    /\ IF RestoreValid(arg[p], res[p])
       THEN IF arg[p] \in DOMAIN versions
            THEN /\ exists' = TRUE
                 /\ file' = CopyOver(file, versions[arg[p]])
                 /\ versions' = RollbackKeeps(versions, FormatTs(now), file)
                 /\ Finish(p, "ok")
            ELSE /\ Finish(p, "raised")
                 /\ UNCHANGED <<exists, file, versions>>
       ELSE /\ Finish(p, "invalid")
            /\ UNCHANGED <<exists, file, versions>>
    /\ UNCHANGED <<ip, now, op, arg, attempt, ts, bk, res, faults, pre, over,
                   hb>>

\* -------------------------------------------------------------- behaviours
Step(p) ==
    \/ LoadOpen(p) \/ LoadLock(p) \/ LoadRead(p)
    \/ SaveCheck(p) \/ SaveCopy(p) \/ SaveOpen(p) \/ SaveLock(p)
    \/ SaveWrite(p)
    \/ RestoreCopy(p)

Start(p) == StartLoad(p) \/ StartSave(p) \/ StartList(p) \/ StartRestore(p)

Idle(p) == pc[p] \in {"idle", "done"}

\* Requests handled concurrently (the threaded server), no I/O errors.
Next ==
    \/ \E p \in 1..NConc : Start(p) \/ Step(p)

Spec == Init /\ [][Next]_vars

\* Requests handled one after the other; I/O errors may be raised.
NextSeq ==
    \/ \E p \in 1..NProcs : (Start(p) /\ \A q \in Procs : Idle(q))
    \/ \E p \in 1..NProcs : Step(p) \/ LoadFail(p) \/ SaveFail(p)

SpecSeq == InitSeq /\ [][NextSeq]_vars

\* One save_ips, and load_ips calls, handled concurrently; no I/O errors.
NextOneSave ==
    \E p \in 1..NConc :
        \/ StartLoad(p)
        \/ StartSave(p) /\ \A q \in Procs : op[q] # "save"
        \/ LoadOpen(p) \/ LoadLock(p) \/ LoadRead(p)
        \/ SaveCheck(p) \/ SaveCopy(p) \/ SaveOpen(p) \/ SaveLock(p)
        \/ SaveWrite(p)

SpecOneSave == Init /\ [][NextOneSave]_vars

\* load_ips and save_ips calls next to another holder of the lock; no I/O
\* errors.  A call that can take a step does so in the end; the other holder
\* gives the lock back when it wants to, if ever.
NextHold ==
    \E p \in 1..NConc :
        \/ StartHold(p) \/ EndHold(p)
        \/ StartLoad(p) \/ StartSave(p)
        \/ LoadOpen(p) \/ LoadLock(p) \/ LoadRead(p)
        \/ SaveCheck(p) \/ SaveCopy(p) \/ SaveOpen(p) \/ SaveLock(p)
        \/ SaveWrite(p)

SpecHold ==
    Init /\ [][NextHold]_vars /\ \A p \in 1..NConc : SF_vars(Step(p))

\* One save_ips, alone, where VERSIONS_DIR may refuse the backup copy in
\* every attempt (copy2 raises before it has created the backup).
NextRetry ==
    \/ StartSave(1)
    \/ SaveCheck(1) \/ SaveCopy(1) \/ SaveOpen(1) \/ SaveLock(1)
    \/ SaveWrite(1)
    \/ SaveFail(1) /\ pc[1] = "s_copy" /\ versions' = versions

SpecRetry == InitRetry /\ [][NextRetry]_vars

\* add, delete and rollback requests handled concurrently; no I/O errors.
NextEdit ==
    \E p \in 1..NConc :
        \/ StartAdd(p) \/ StartDelete(p) \/ StartRestore(p)
        \/ EditCheck(p)
        \/ Step(p)

SpecEdit == Init /\ [][NextEdit]_vars

\* add and delete requests handled one after the other; I/O errors may be
\* raised.
NextEditSeq ==
    \/ \E p \in 1..NProcs :
           (StartAdd(p) \/ StartDelete(p)) /\ \A q \in Procs : Idle(q)
    \/ \E p \in 1..NProcs :
           \/ LoadOpen(p) \/ LoadLock(p) \/ LoadRead(p) \/ LoadFail(p)
           \/ EditCheck(p)
           \/ SaveCheck(p) \/ SaveCopy(p) \/ SaveOpen(p) \/ SaveLock(p)
           \/ SaveWrite(p) \/ SaveFail(p)

SpecEditSeq == InitSeq /\ [][NextEditSeq]_vars

\* ------------------------------------------------------------------ claims
Done(p, o) == pc[p] = "done" /\ op[p] = o
Quiescent == \A p \in Procs : Idle(p)
Pos(l, x) == CHOOSE i \in 1..Len(l) : l[i] = x

\* The request p is the last one to have arrived.
Latest(p) == \A q \in Procs : q > p => pc[q] = "idle"

\* The attempt of save_ips that p is in, or ended with, has taken its backup.
Archived(p) ==
    op[p] = "save" /\ bk[p] /\ pc[p] \in {"s_open", "s_lock", "s_write", "done"}

\* C1: a load_ips that runs concurrently with a single save_ips on an
\* existing IP_FILE returns the list stored before the save or the list
\* passed to it, never an intermediate content.
LoadSeesOldOrNew ==
    \A p, q \in Procs :
        Done(p, "load") /\ op[q] = "save" /\ pre[q].e
            => res[p] \in {Parse(pre[q].f), arg[q]}

\* C2: whenever no save_ips is in progress after one or more concurrent
\* save_ips calls, IP_FILE holds exactly the list passed to one of them.
SaveIsAtomic ==
    (Quiescent /\ (\E p \in Procs : op[p] = "save")
               /\ (\A p \in Procs : op[p] \in {"none", "save"}))
        => \E p \in Procs : op[p] = "save" /\ file = Serialize(arg[p])

\* C3, as stated: load_ips right after a successful save_ips(L) returns L.
RoundTripAlways ==
    \A p \in 1..(NProcs - 1) :
        Done(p, "save") /\ out[p] = "ok" /\ Done(p + 1, "load")
            => res[p + 1] = arg[p]

\* C3, amended: load_ips right after a successful save_ips(L) returns L,
\* elements and order, unless all 5 attempts of that load_ips failed.
RoundTrip ==
    \A p \in 1..(NProcs - 1) :
        Done(p, "save") /\ out[p] = "ok" /\ Done(p + 1, "load")
                        /\ out[p + 1] = "ok"
            => res[p + 1] = arg[p]

RoundTripWitness ==
    \E p \in 1..(NProcs - 1) :
        /\ Done(p, "save") /\ out[p] = "ok" /\ arg[p] # <<>>
        /\ pre[p].e /\ Len(pre[p].f) > Len(Serialize(arg[p]))
        /\ Done(p + 1, "load") /\ out[p + 1] = "ok" /\ attempt[p + 1] > 0
        /\ res[p + 1] = arg[p]

\* C4: the backup taken by a successful save_ips holds the content that
\* IP_FILE had immediately before that save_ips overwrote it.
ArchiveHoldsOverwritten ==
    \A p \in Procs :
        Done(p, "save") /\ out[p] = "ok" /\ bk[p]
            => ts[p] \in DOMAIN versions /\ versions[ts[p]] = over[p]

\* C5: a successful save_ips on an existing IP_FILE, alone, makes List()
\* one longer, also when it succeeds after failed attempts.
SaveAddsOneSnapshot ==
    \A p \in 1..NProcs :
        Done(p, "save") /\ out[p] = "ok" /\ pre[p].e /\ Latest(p)
            => Len(List) = Cardinality(DOMAIN pre[p].v) + 1

\* C6: N archive steps leave N backups: no two of them share a name.
SnapshotNamesDistinct ==
    /\ \A p, q \in Procs :
           p # q /\ Archived(p) /\ Archived(q) => ts[p] # ts[q]
    /\ Len(List) = Cardinality({p \in Procs : Archived(p)})

\* C7: a backup, once written, keeps its content and stays in VERSIONS_DIR.
SnapshotsImmutable ==
    [][\A n \in DOMAIN versions :
           n \in DOMAIN versions' /\ versions'[n] = versions[n]]_vars

RestoreThenLoadAlways ==
    \A p \in 1..(NProcs - 1) :
        Done(p, "restore") /\ out[p] = "ok" /\ Done(p + 1, "load")
            => res[p + 1] = Parse(versions[arg[p]])

\* C9, amended: load_ips right after a successful Restore(id), id in List(),
\* returns the list archived under id, unless all 5 attempts of that
\* load_ips failed.
RestoreThenLoad ==
    \A p \in 1..(NProcs - 1) :
        Done(p, "restore") /\ out[p] = "ok" /\ Done(p + 1, "load")
                           /\ out[p + 1] = "ok"
            => /\ InList(arg[p], res[p])
               /\ res[p + 1] = Parse(versions[arg[p]])

RestoreThenLoadWitness ==
    \E p \in 1..(NProcs - 1) :
        /\ Done(p, "restore") /\ out[p] = "ok"
        /\ Len(pre[p].f) > Len(versions[arg[p]])
        /\ Done(p + 1, "load") /\ out[p + 1] = "ok"
        /\ res[p + 1] # <<>> /\ res[p + 1] # Parse(pre[p].f)

\* C10: Restore(id) with id missing, or not in List(), reports an invalid
\* version and leaves IP_FILE and the backups as they were.
RestoreFailure ==
    \A p \in 1..NProcs :
        Done(p, "restore") /\ (arg[p] = NoArg \/ ~InList(arg[p], res[p]))
            => /\ out[p] = "invalid"
               /\ Latest(p) => Store = pre[p]

RestoreFailureWitness ==
    \E p, q \in 1..NProcs :
        /\ Done(p, "restore") /\ arg[p] = OtherName /\ out[p] = "invalid"
        /\ Done(q, "restore") /\ arg[q] = NoArg /\ out[q] = "invalid"
        /\ versions # EmptyDir /\ exists

\* C11: a successful rollback, alone, writes the chosen backup over IP_FILE
\* and leaves the backups, names and contents, as they were: the content it
\* replaced is in a backup afterwards only if it was in one before.
RestoreTakesNoSnapshot ==
    \A p \in 1..NProcs :
        Done(p, "restore") /\ out[p] = "ok" /\ Latest(p)
            => /\ exists /\ file = pre[p].v[arg[p]]
               /\ versions = pre[p].v
               /\ (\E n \in DOMAIN versions : versions[n] = pre[p].f)
                      => \E n \in DOMAIN pre[p].v : pre[p].v[n] = pre[p].f

RestoreTakesNoSnapshotWitness ==
    \E p \in 1..NProcs :
        /\ Done(p, "restore") /\ out[p] = "ok" /\ Latest(p)
        /\ pre[p].e /\ file # pre[p].f
        /\ \A n \in DOMAIN versions : versions[n] # pre[p].f

\* C12: save_ips makes at most 5 attempts, raises when the last one fails,
\* and when it returns without an error IP_FILE holds exactly the list
\* passed to it.
SaveWritesItsList ==
    [][\A p \in Procs :
           op[p] = "save" /\ pc[p] # "done" /\ pc'[p] = "done"
               => /\ attempt[p] < max_retries
                  /\ out'[p] \in {"ok", "raised"}
                  /\ out'[p] = "raised" => attempt[p] = max_retries - 1
                  /\ out'[p] = "ok" => file' = Serialize(arg[p])]_vars

\* C13: load_ips, alone, ends by returning a list, never by raising: the
\* empty list when IP_FILE does not exist and when all 5 attempts failed, the
\* lines of the file when an attempt, the first or a later one, succeeded.
LoadDegrades ==
    \A p \in 1..NProcs :
        Done(p, "load")
            => /\ out[p] \in {"ok", "gaveup"}
               /\ attempt[p] < max_retries
               /\ ~pre[p].e => out[p] = "ok" /\ res[p] = <<>>
               /\ out[p] = "gaveup"
                      => res[p] = <<>> /\ attempt[p] = max_retries - 1
               /\ pre[p].e /\ out[p] = "ok" /\ Latest(p)
                      => \A l \in Lists : file = Serialize(l) => res[p] = l

LoadDegradesWitness ==
    \E p, q \in 1..NProcs :
        /\ Done(p, "load") /\ out[p] = "gaveup" /\ pre[p].e
        /\ Parse(pre[p].f) # <<>> /\ res[p] = <<>>
        /\ Done(q, "load") /\ out[q] = "ok" /\ attempt[q] > 0
        /\ res[q] = Parse(file) /\ res[q] # <<>>

\* C14: a load_ips or save_ips that asks for the lock ends, whatever the
\* other holders of the lock do.
BoundedLockWait ==
    \A p \in 1..NConc :
        (op[p] \in {"load", "save"} /\ pc[p] \in {"l_lock", "s_lock"})
            ~> (pc[p] = "done")

\* C15: a successful save_ips(L), alone, that found no IP_FILE leaves the
\* file with content L and the backups as they were; only a save_ips that
\* found IP_FILE takes a backup.
FirstSaveNoSnapshot ==
    \A p \in 1..NProcs :
        /\ Done(p, "save") /\ out[p] = "ok" /\ ~pre[p].e /\ Latest(p)
               => exists /\ file = Serialize(arg[p]) /\ versions = pre[p].v
        /\ op[p] = "save" /\ bk[p] => pre[p].e

\* C16: a step of save_ips changes the content of IP_FILE only while that
\* save_ips holds the exclusive lock.
TruncateUnderLock ==
    [][\A p \in Procs :
           op[p] = "save" /\ pc'[p] # pc[p] /\ file' # file
               => HoldsEX(p)]_vars

\* C17: an attempt of save_ips whose backup copy fails neither opens nor
\* changes IP_FILE; the failure uses up one of the 5 attempts, and the next
\* attempt, if one is left, starts at the backup again.
ArchiveBeforeOverwrite ==
    [][\A p \in Procs :
           op[p] = "save" /\ pc[p] = "s_copy" /\ faults' < faults
               => /\ exists /\ exists' /\ file' = file /\ over' = over
                  /\ IF attempt[p] < max_retries - 1
                     THEN /\ attempt'[p] = attempt[p] + 1
                          /\ pc'[p] = "s_chk"
                     ELSE /\ pc'[p] = "done"
                          /\ out'[p] = "raised"]_vars

ArchiveBeforeOverwriteWitness ==
    /\ Done(1, "save") /\ out[1] = "raised" /\ attempt[1] = max_retries - 1
    /\ bk[1] /\ ts[1] \notin DOMAIN versions /\ versions = EmptyDir
    /\ pre[1].e /\ pre[1].f # <<>> /\ file = pre[1].f

\* C18: once two requests that both reported success have ended, two adds
\* of different addresses not in the list before, or an add and a delete of
\* different addresses, IP_FILE has both additions, or the addition and not
\* the deleted address.
NoLostUpdate ==
    \A p, q \in Procs :
        /\ p # q /\ ip[p] # ip[q]
        /\ Done(p, "add") /\ out[p] = "ok"
        /\ ~InList(ip[p], Parse(pre[p].f))
        /\ pc[q] = "done" /\ out[q] = "ok"
        => /\ (op[q] = "add" /\ ~InList(ip[q], Parse(pre[q].f)))
                  => InList(ip[p], Parse(file)) /\ InList(ip[q], Parse(file))
           /\ op[q] = "delete"
                  => InList(ip[p], Parse(file)) /\ ~InList(ip[q], Parse(file))

\* C19: from an IP_FILE without duplicates, after any interleaving of add,
\* delete and rollback requests, IP_FILE holds no address twice once no
\* request is in progress.
Distinctness == Quiescent => Distinct(Parse(file))

\* The request p has called save_ips.
CalledSave(p) ==
    \/ pc[p] \in {"s_chk", "s_copy", "s_open", "s_lock", "s_write"}
    \/ pc[p] = "done" /\ out[p] \in {"ok", "raised"}

\* C20: an add of an address that is in the loaded list and a delete of one
\* that is not are refused without a call of save_ips, and leave IP_FILE and
\* the backups as they were; an add that goes on saves the loaded list with
\* the address at its end, a delete that goes on saves the loaded list
\* without one entry, which is that address, the others in their order.
RejectedEditsChangeNothing ==
    \A p \in 1..NProcs :
        /\ Done(p, "add") \/ Done(p, "delete") => out[p] # "none"
        /\ op[p] \in {"add", "delete"} /\ out[p] = "rejected"
               => /\ (op[p] = "add") = InList(ip[p], res[p])
                  /\ ~CalledSave(p) /\ arg[p] = <<>>
                  /\ Latest(p) => Store = pre[p]
        /\ op[p] = "add" /\ CalledSave(p)
               => /\ ~InList(ip[p], res[p])
                  /\ Len(arg[p]) = Len(res[p]) + 1
                  /\ SubSeq(arg[p], 1, Len(res[p])) = res[p]
                  /\ arg[p][Len(arg[p])] = ip[p]
        /\ op[p] = "delete" /\ CalledSave(p)
               => \E i \in 1..Len(res[p]) :
                      /\ res[p][i] = ip[p]
                      /\ arg[p] = SubSeq(res[p], 1, i - 1)
                                      \o SubSeq(res[p], i + 1, Len(res[p]))

RejectedEditsChangeNothingWitness ==
    \E p, q \in 1..NProcs :
        /\ Done(p, "add") /\ out[p] = "rejected" /\ Len(res[p]) = 2
        /\ Done(q, "delete") /\ out[q] = "ok" /\ Len(res[q]) = 2
        /\ res[q][1] = ip[q] /\ file = Serialize(arg[q])

====
